---- MODULE Spec2Model ----
(***************************************************************************)
(* Model of src/web.py: the HTTP handlers that read and replace the        *)
(* module-level settings dictionary (app.settings) and the module-level    *)
(* Downloader (app.downloader), and the two download handlers that await   *)
(* app.downloader.pool_download(song).                                     *)
(*                                                                         *)
(* app.settings and app.downloader are assigned by the start-up code       *)
(* web(settings), which the file carries as a commented-out block (lines   *)
(* 215-253); Init is the state that code sets up.                          *)
(*                                                                         *)
(* The Downloader class itself is imported (spotdl.download.downloader)    *)
(* and is not part of src/.  Its pool is modelled from section 4.1 of the  *)
(* specification (the Bounded Executor): a FIFO queue per Downloader and   *)
(* at most `threads` items running at once.                                *)
(***************************************************************************)
EXTENDS Integers, Sequences, FiniteSets, TLC

\* ------------------------------------------------------------------ bounds
MaxReq == 3          \* download requests issued in one behaviour
MaxChanges == 2      \* change_settings calls that construct a Downloader
MaxThreads == 2      \* concurrency limits range over 1..MaxThreads

\* ------------------------------------------------------------ value spaces
None == <<>>                       \* Python None; Some(v) is <<v>>
Some(v) == <<v>>

Outputs == {".", "out"}
Threads == 1..MaxThreads

\* The keys of SettingsModel that the model follows: `output`, the one field
\* change_output assigns in place, and `threads`, which sizes the pool.  The
\* other keys take the same path through change_settings as `output` does.
Fields == {"output", "threads"}

\* a SettingsModel request body: every field Optional
SettingsModel ==
    [output : {None} \cup {Some(v) : v \in Outputs},
     threads : {None} \cup {Some(v) : v \in Threads}]

Requests == 1..MaxReq

VARIABLES
    settings,     \* app.settings: the dictionary handed to web()
    execs,        \* the Downloader objects constructed so far (the heap)
    downloader,   \* app.downloader: index into execs
    items,        \* one record per download request (coroutine + work item)
    nreq,         \* number of download requests received
    last,         \* what the most recent settings call answered: kind
                  \*   "none" (no call yet), "ok" (True), "error" (raised)
                  \*   or "settings" with the SettingsModel returned
    limit,        \* history: per Downloader, the concurrency limit the call
                  \*   that installed it asked for (0 once it is garbage)
    calls         \* the change_settings calls running in threadpool threads
                  \*   step by step: their locals and how far they got

vars == <<settings, execs, downloader, items, nreq, last, limit, calls>>

\* ---------------------------------------------------------------- helpers

\* mutant of Merge: the update runs the other way round, so the current
\* values win over the request's
MergeCurrentWins(cur, partial) == cur

\* settings_cpy = app.settings.copy();
\* settings_cpy.update({k: v for k, v in settings.dict().items() if v is not None})
Merge(cur, partial) ==
    [k \in DOMAIN cur |->
        IF k \in Fields /\ partial[k] # None THEN partial[k][1] ELSE cur[k]]

\* mutant of NewDownloader: the pool gets one worker more than the limit
NewDownloaderOneMore(s) ==
    [output |-> s["output"], threads |-> s["threads"] + 1]

\* Downloader(..., threads=settings_cpy["threads"],
\*            output=settings_cpy["output"], ...)
NewDownloader(s) == [output |-> s["output"], threads |-> s["threads"]]

\* what GET /api/settings answers, SettingsModel(**app.settings): the
\* declared fields; keys SettingsModel does not declare (no_cache) are dropped
GetSettingsValue(s) == [k \in Fields |-> s[k]]

\* the answer of a settings handler
Returned(kind, value) == [kind |-> kind, value |-> value]

\* the change_settings calls followed statement by statement
Calls == 1..MaxChanges

\* a change_settings call that has not started
NoCall == [st |-> "idle", partial |-> None, settings_cpy |-> None,
           dl |-> 0, seq |-> 0]

\* a request that has not arrived yet
IdleItem == [st |-> "idle", ex |-> 0, out |-> "none", resp |-> "none"]

\* a Downloader no reference leads to any more (garbage)
Freed == [output |-> "", threads |-> 0]

\* ------------------------------------------------------------------- Init
\* web(settings): app.settings = settings; app.downloader = Downloader(...)
Init ==
    /\ \E n \in Threads :
         settings = [output |-> ".", threads |-> n, no_cache |-> FALSE]
    /\ execs = <<NewDownloader(settings)>>
    /\ downloader = 1
    /\ items = [r \in Requests |-> IdleItem]
    /\ nreq = 0
    /\ last = Returned("none", None)
    /\ limit = <<settings["threads"]>>
    /\ calls = [c \in Calls |-> NoCall]

\* ------------------------------------------------------- bounded executor

\* items of Downloader e; request ids grow with submission time, so the FIFO
\* head of e's queue is its smallest queued id
Queued(e) == {r \in Requests : items[r].st = "queued" /\ items[r].ex = e}
Running(e) == {r \in Requests : items[r].st = "running" /\ items[r].ex = e}
InFlight(e) == Queued(e) \cup Running(e)
\* mutant of QueueHead: the most recently queued item is taken first
QueueHeadNewest(e) == CHOOSE r \in Queued(e) : \A q \in Queued(e) : r >= q

QueueHead(e) == CHOOSE r \in Queued(e) : \A q \in Queued(e) : r <= q

\* pool_download(song) is entered: the item joins the queue of the Downloader
\* the handler read from app.downloader
Submit(r) ==
    /\ items' = [items EXCEPT ![r] =
                   [IdleItem EXCEPT !.st = "queued", !.ex = downloader]]
    /\ nreq' = r

\* a free worker of Downloader e takes the head of e's queue.  The operation
\* is handed the song only: every other parameter it runs with is a field of
\* the Downloader it belongs to, execs[items[r].ex].
Dispatch(e) ==
    /\ Queued(e) # {}
    /\ Cardinality(Running(e)) < execs[e].threads
    /\ items' = [items EXCEPT ![QueueHead(e)].st = "running"]
    /\ UNCHANGED <<settings, execs, downloader, nreq, last, limit, calls>>

\* the blocking operation ends: with a file path, without one, or by raising
Outcomes == {"path", "none", "raise"}

\* the item leaves its pool; a replaced Downloader whose last item has left
\* is unreachable
Finish(r, out) ==
    LET e == items[r].ex IN
    /\ items[r].st = "running"
    /\ items' = [items EXCEPT ![r].st = "finished", ![r].out = out,
                              ![r].ex = 0]
    /\ IF e # downloader /\ InFlight(e) = {r}
       THEN /\ execs' = [execs EXCEPT ![e] = Freed]
            /\ limit' = [limit EXCEPT ![e] = 0]
       ELSE UNCHANGED <<execs, limit>>
    /\ UNCHANGED <<settings, downloader, nreq, last, calls>>

\* ------------------------------------------------------- settings handlers

\* mutant of get_settings: the output directory of the live Downloader is
\* copied back into app.settings before it is returned
get_settings_syncing ==
    /\ settings' = [settings EXCEPT !["output"] = execs[downloader].output]
    /\ last' = Returned("settings", Some(GetSettingsValue(settings')))
    /\ UNCHANGED <<execs, downloader, items, nreq, limit, calls>>

\* GET /api/settings: return SettingsModel(**app.settings)
get_settings ==
    /\ last' = Returned("settings", Some(GetSettingsValue(settings)))
    /\ UNCHANGED <<settings, execs, downloader, items, nreq, limit, calls>>

\* mutant of change_output: a Downloader with the new output directory is
\* constructed and installed in place of the current one
change_output_rebuilding(output) ==
    /\ execs' = Append(execs, [execs[downloader] EXCEPT !.output = output])
    /\ downloader' = Len(execs) + 1
    /\ limit' = Append(limit, limit[downloader])
    /\ last' = Returned("ok", None)
    /\ UNCHANGED <<settings, items, nreq, calls>>

\* POST /api/downloader/change_output: app.downloader.output = output
change_output(output) ==
    /\ execs' = [execs EXCEPT ![downloader].output = output]
    /\ last' = Returned("ok", None)
    /\ UNCHANGED <<settings, downloader, items, nreq, limit, calls>>

\* the concurrency limit a change_settings call asks for: the partial's
\* threads, or the threads of app.settings when the partial names none
Requested(partial) ==
    IF partial["threads"] # None THEN partial["threads"][1]
    ELSE settings["threads"]

\* mutant of change_settings: the merged snapshot is stored in app.settings
\* before the Downloader is constructed
change_settings_commit_first(partial, built) ==
    LET settings_cpy == Merge(settings, partial) IN
    IF built
    THEN /\ Len(execs) < 1 + MaxChanges
         /\ settings' = settings_cpy
         /\ execs' = Append(IF InFlight(downloader) = {}
                            THEN [execs EXCEPT ![downloader] = Freed]
                            ELSE execs,
                            NewDownloader(settings_cpy))
         /\ downloader' = Len(execs) + 1
         /\ limit' = Append(IF InFlight(downloader) = {}
                            THEN [limit EXCEPT ![downloader] = 0]
                            ELSE limit,
                            Requested(partial))
         /\ last' = Returned("ok", None)
         /\ UNCHANGED <<items, nreq, calls>>
    ELSE /\ settings' = settings_cpy
         /\ last' = Returned("error", None)
         /\ UNCHANGED <<execs, downloader, items, nreq, limit, calls>>

\* mutant of change_settings: the replaced Downloader's running operations
\* are cancelled
change_settings_aborting(partial, built) ==
    LET settings_cpy == Merge(settings, partial) IN
    IF built
    THEN /\ Len(execs) < 1 + MaxChanges
         /\ execs' = Append(IF Queued(downloader) = {}
                            THEN [execs EXCEPT ![downloader] = Freed]
                            ELSE execs,
                            NewDownloader(settings_cpy))
         /\ downloader' = Len(execs) + 1
         /\ limit' = Append(IF Queued(downloader) = {}
                            THEN [limit EXCEPT ![downloader] = 0]
                            ELSE limit,
                            Requested(partial))
         /\ items' = [r \in Requests |->
                        IF r \in Running(downloader)
                        THEN [IdleItem EXCEPT !.st = "responded",
                                              !.resp = "Cancelled"]
                        ELSE items[r]]
         /\ last' = Returned("ok", None)
         /\ UNCHANGED <<settings, nreq, calls>>
    ELSE /\ last' = Returned("error", None)
         /\ UNCHANGED <<settings, execs, downloader, items, nreq, limit, calls>>

\* mutant of change_settings: the replaced Downloader's pool is shut down,
\* so what is still queued on it is never dispatched
change_settings_shutdown(partial, built) ==
    LET settings_cpy == Merge(settings, partial) IN
    IF built
    THEN /\ Len(execs) < 1 + MaxChanges
         /\ execs' = Append([execs EXCEPT ![downloader].threads = 0],
                            NewDownloader(settings_cpy))
         /\ downloader' = Len(execs) + 1
         /\ limit' = Append(IF InFlight(downloader) = {}
                            THEN [limit EXCEPT ![downloader] = 0]
                            ELSE limit,
                            Requested(partial))
         /\ last' = Returned("ok", None)
         /\ UNCHANGED <<settings, items, nreq, calls>>
    ELSE /\ last' = Returned("error", None)
         /\ UNCHANGED <<settings, execs, downloader, items, nreq, limit, calls>>

\* mutant of change_settings: a call whose merged snapshot equals the
\* configuration of the installed Downloader keeps that Downloader
change_settings_reuse(partial, built) ==
    LET settings_cpy == Merge(settings, partial) IN
    IF built /\ NewDownloader(settings_cpy) = execs[downloader]
    THEN /\ last' = Returned("ok", None)
         /\ UNCHANGED <<settings, execs, downloader, items, nreq, limit, calls>>
    ELSE IF built
    THEN /\ Len(execs) < 1 + MaxChanges
         /\ execs' = Append(IF InFlight(downloader) = {}
                            THEN [execs EXCEPT ![downloader] = Freed]
                            ELSE execs,
                            NewDownloader(settings_cpy))
         /\ downloader' = Len(execs) + 1
         /\ limit' = Append(IF InFlight(downloader) = {}
                            THEN [limit EXCEPT ![downloader] = 0]
                            ELSE limit,
                            Requested(partial))
         /\ last' = Returned("ok", None)
         /\ UNCHANGED <<settings, items, nreq, calls>>
    ELSE /\ last' = Returned("error", None)
         /\ UNCHANGED <<settings, execs, downloader, items, nreq, limit, calls>>

\* POST /api/settings/update.  `built` is whether Downloader(...) returns
\* (TRUE) or raises (FALSE); the assignment to app.downloader only happens
\* after the constructor has returned.  app.settings is never assigned.
change_settings(partial, built) ==
    LET settings_cpy == Merge(settings, partial) IN
    IF built
    THEN /\ Len(execs) < 1 + MaxChanges
         /\ execs' = Append(IF InFlight(downloader) = {}
                            THEN [execs EXCEPT ![downloader] = Freed]
                            ELSE execs,
                            NewDownloader(settings_cpy))
         /\ downloader' = Len(execs) + 1
         /\ limit' = Append(IF InFlight(downloader) = {}
                            THEN [limit EXCEPT ![downloader] = 0]
                            ELSE limit,
                            Requested(partial))
         /\ last' = Returned("ok", None)
         /\ UNCHANGED <<settings, items, nreq, calls>>
    ELSE /\ last' = Returned("error", None)
         /\ UNCHANGED <<settings, execs, downloader, items, nreq, limit, calls>>

\* ---------------------------------- change_settings, statement by statement
\* change_settings is a plain `def`: the framework runs each call in a
\* threadpool thread, so two calls interleave between their statements.

\* the calls that have assigned app.downloader
Committed == {c \in Calls : calls[c].st = "done"}

\* web.py:188-210 in call c: settings_cpy = app.settings.copy(), the update
\* with the partial's non-None fields, and the Downloader(...) constructor,
\* which returns a new object (built) or raises
change_settings_begin(c, partial, built) ==
    LET settings_cpy == Merge(settings, partial) IN
    /\ calls[c].st = "idle"
    /\ IF built
       THEN /\ execs' = Append(execs, NewDownloader(settings_cpy))
            /\ limit' = Append(limit, Requested(partial))
            /\ calls' = [calls EXCEPT ![c] =
                           [st |-> "built", partial |-> Some(partial),
                            settings_cpy |-> Some(settings_cpy),
                            dl |-> Len(execs) + 1, seq |-> 0]]
            /\ UNCHANGED last
       ELSE /\ calls' = [calls EXCEPT ![c].st = "raised"]
            /\ last' = Returned("error", None)
            /\ UNCHANGED <<execs, limit>>
    /\ UNCHANGED <<settings, downloader, items, nreq>>

\* mutant of change_settings_commit: the fields are copied one by one into
\* the object app.downloader refers to, and the copy stops after `output`
change_settings_commit_torn(c) ==
    /\ calls[c].st = "built"
    /\ execs' = [execs EXCEPT ![calls[c].dl] =
                   [output |-> execs[calls[c].dl].output,
                    threads |-> execs[downloader].threads]]
    /\ downloader' = calls[c].dl
    /\ calls' = [calls EXCEPT ![c].st = "done",
                              ![c].seq = Cardinality(Committed) + 1]
    /\ last' = Returned("ok", None)
    /\ UNCHANGED <<settings, items, nreq, limit>>

\* web.py:195,212 in call c: the one assignment app.downloader = <the object
\* call c constructed>, then return True.  The object assigned over is
\* garbage when no item is left on it.
change_settings_commit(c) ==
    /\ calls[c].st = "built"
    /\ downloader' = calls[c].dl
    /\ IF InFlight(downloader) = {}
       THEN /\ execs' = [execs EXCEPT ![downloader] = Freed]
            /\ limit' = [limit EXCEPT ![downloader] = 0]
       ELSE UNCHANGED <<execs, limit>>
    /\ calls' = [calls EXCEPT ![c].st = "done",
                              ![c].seq = Cardinality(Committed) + 1]
    /\ last' = Returned("ok", None)
    /\ UNCHANGED <<settings, items, nreq>>

\* ------------------------------------------------------- download handlers

\* mutant of download_search_return: a missing file requested as a file is
\* reported as a failed download
download_search_return_conflated(out, return_file) ==
    IF out = "raise" \/ (out = "none" /\ return_file) THEN "DownloadFailed"
    ELSE IF return_file THEN "FileResponse"
    ELSE (IF out = "none" THEN "SongNoPath" ELSE "SongAndPath")

\* mutant of download_objects_return: the `path is None` test is missing
download_objects_return_unchecked(out, return_file) ==
    IF out = "raise" THEN "DownloadFailed"
    ELSE IF return_file THEN "FileResponse"
    ELSE (IF out = "none" THEN "SongNoPath" ELSE "SongAndPath")

\* what the handler answers once `await pool_download(...)` has returned
\* (song, path) or raised
download_search_return(out, return_file) ==
    IF out = "raise" THEN "DownloadFailed"
    ELSE IF return_file
         THEN (IF out = "none" THEN "ValueError" ELSE "FileResponse")
         ELSE (IF out = "none" THEN "SongNoPath" ELSE "SongAndPath")

download_objects_return(out, return_file) ==
    IF out = "raise" THEN "DownloadFailed"
    ELSE IF return_file
         THEN (IF out = "none" THEN "ValueError" ELSE "FileResponse")
         ELSE (IF out = "none" THEN "SongNoPath" ELSE "SongAndPath")

\* POST /api/download/search, up to the await.  `found` is whether
\* Song.from_search_term(query) returns a song or raises.
download_search(found) ==
    /\ nreq < MaxReq
    /\ IF found
       THEN Submit(nreq + 1)
       ELSE /\ items' = [items EXCEPT ![nreq + 1] =
                           [IdleItem EXCEPT !.st = "responded",
                                            !.resp = "SearchFailed"]]
            /\ nreq' = nreq + 1
    /\ UNCHANGED <<settings, execs, downloader, last, limit, calls>>

\* mutant of download_objects: the handler waits for the result without
\* yielding, so no request is accepted while an item is queued or running
download_objects_blocking ==
    /\ nreq < MaxReq
    /\ \A r \in Requests : items[r].st \notin {"queued", "running"}
    /\ Submit(nreq + 1)
    /\ UNCHANGED <<settings, execs, downloader, last, limit, calls>>

\* POST /api/download/objects, up to the await
download_objects ==
    /\ nreq < MaxReq
    /\ Submit(nreq + 1)
    /\ UNCHANGED <<settings, execs, downloader, last, limit, calls>>

\* The event loop resumes the handler awaiting item r, which answers.
\* return_file, and which of the two handlers is waiting, are read only by
\* the code after the await; they are drawn here, where that code runs.
download_search_resume(r, return_file) ==
    /\ items[r].st = "finished"
    /\ items' = [items EXCEPT ![r] =
                   [IdleItem EXCEPT !.st = "responded",
                      !.resp = download_search_return(items[r].out,
                                                      return_file)]]
    /\ UNCHANGED <<settings, execs, downloader, nreq, last, limit, calls>>

download_objects_resume(r, return_file) ==
    /\ items[r].st = "finished"
    /\ items' = [items EXCEPT ![r] =
                   [IdleItem EXCEPT !.st = "responded",
                      !.resp = download_objects_return(items[r].out,
                                                       return_file)]]
    /\ UNCHANGED <<settings, execs, downloader, nreq, last, limit, calls>>

\* ------------------------------------------------------------------- Next
Next ==
    \/ get_settings
    \/ \E o \in Outputs : change_output(o)
    \/ \E p \in SettingsModel, built \in BOOLEAN : change_settings(p, built)
    \/ \E found \in BOOLEAN : download_search(found)
    \/ download_objects
    \/ \E e \in 1..Len(execs) : Dispatch(e)
    \/ \E r \in Requests, out \in Outcomes : Finish(r, out)
    \/ \E r \in Requests, rf \in BOOLEAN : download_search_resume(r, rf)
    \/ \E r \in Requests, rf \in BOOLEAN : download_objects_resume(r, rf)

Spec == Init /\ [][Next]_vars

\* the event loop and the worker threads keep running: a free worker takes
\* queued work, a running operation ends, a finished item's awaiter resumes
Fairness ==
    /\ \A e \in 1..(1 + MaxChanges) : WF_vars(e <= Len(execs) /\ Dispatch(e))
    /\ \A r \in Requests : WF_vars(\E out \in Outcomes : Finish(r, out))
    /\ \A r \in Requests :
         WF_vars(\E rf \in BOOLEAN : \/ download_search_resume(r, rf)
                                     \/ download_objects_resume(r, rf))

FairSpec == Spec /\ Fairness

\* the settings calls at statement granularity, with requests that read
\* app.downloader in between
RaceNext ==
    \/ \E c \in Calls, p \in SettingsModel, built \in BOOLEAN :
         change_settings_begin(c, p, built)
    \/ \E c \in Calls : change_settings_commit(c)
    \/ get_settings
    \/ download_objects

RaceSpec == Init /\ [][RaceNext]_vars

TypeOK ==
    /\ downloader \in 1..Len(execs)
    /\ nreq \in 0..MaxReq
    /\ Len(limit) = Len(execs)
    /\ \A c \in Calls :
         /\ calls[c].st \in {"idle", "built", "raised", "done"}
         /\ calls[c].st \in {"built", "done"} <=>
              calls[c].dl \in 2..Len(execs)
    /\ last.kind \in {"none", "ok", "error", "settings"}
    /\ last.kind = "settings" <=> last.value # None
    /\ \A r \in Requests :
         /\ items[r].st \in {"idle", "queued", "running", "finished",
                              "responded"}
         /\ items[r].st \in {"queued", "running"} <=>
              items[r].ex \in 1..Len(execs)
         /\ items[r].st \in {"queued", "running"} =>
              execs[items[r].ex] # Freed


\* ------------------------------------------------------------------ claims

RunningAll == {r \in Requests : items[r].st = "running"}
Answers == {"FileResponse", "SongAndPath", "SongNoPath"}

\* C1: after a replace operation returns successfully (change_settings or
\* change_output), get_settings returns what it returned before the call with
\* the partial's non-None fields, or the output path, overriding it.
C1_GetReflectsReplace ==
    [][ /\ \A p \in SettingsModel :
             change_settings(p, TRUE) =>
               GetSettingsValue(settings') =
                 Merge(GetSettingsValue(settings), p)
        /\ \A o \in Outputs :
             change_output(o) =>
               GetSettingsValue(settings') =
                 [GetSettingsValue(settings) EXCEPT !["output"] = o]
      ]_vars

\* C2: a field set by an earlier call and absent (None) in every later call
\* keeps the earlier call's value in the configuration of the active
\* Downloader.  Stated per call: a successful change_settings whose partial
\* leaves a field absent installs a Downloader with that field as the active
\* Downloader had it.  (The active Downloader's field differs from
\* app.settings' only after a call has set it, so a step that breaks this
\* breaks the claim.)
C2_AbsentFieldsKeepValue ==
    [][ \A p \in SettingsModel :
          change_settings(p, TRUE) =>
            \A k \in Fields :
              p[k] = None => execs'[downloader'][k] = execs[downloader][k]
      ]_vars

\* C3: a configuration change made while an item is queued or running never
\* changes the parameters the item is executed with, which are the fields of
\* the Downloader it was submitted to.
C3_InFlightParamsFrozen ==
    [][ \A r \in Requests :
          (/\ items[r].st \in {"queued", "running"}
           /\ items'[r].st \in {"queued", "running"})
          => execs'[items[r].ex] = execs[items[r].ex]
      ]_vars

\* C4 as stated: once change_settings has installed a limit K, at no instant
\* are more than K of the requests submitted afterwards running (requests
\* submitted after Downloader i was installed belong to Downloader i or a
\* later one).
C4_LimitForAllLaterRequests ==
    \A i \in 2..Len(execs) :
      limit[i] # 0 =>
        Cardinality({r \in RunningAll : items[r].ex >= i}) <= limit[i]

\* C4 amended: of the requests submitted after change_settings installed a
\* limit K and before the next successful change_settings, at most K run at
\* once.
C4_LimitPerInstalledPool ==
    \A i \in 2..Len(execs) : Cardinality(Running(i)) <= limit[i]

C4_Witness ==
    /\ downloader > 1
    /\ limit[downloader] = 2
    /\ Cardinality(Running(downloader)) = 2
    /\ Queued(downloader) # {}

\* C5: an item that is running when change_settings replaces the Downloader
\* is not aborted: the call leaves it as it is, on the Downloader it was
\* submitted to, and an item running on a replaced Downloader ends and its
\* result (or failure) is delivered to the request awaiting it.
C5_RunningSurvivesReplace ==
    /\ [][ (downloader' # downloader) =>
             \A r \in RunningAll :
               /\ items'[r] = items[r]
               /\ execs'[items[r].ex] = execs[items[r].ex]
         ]_vars
    /\ \A r \in Requests :
         (items[r].st = "running" /\ items[r].ex # downloader)
           ~> (items[r].st = "responded"
               /\ items[r].resp \in Answers \cup {"ValueError", "DownloadFailed"})

C5_Witness ==
    \E r \in Requests :
      /\ items[r].st = "running"
      /\ items[r].ex # downloader
      /\ \E q \in Requests : items[q].st = "running" /\ items[q].ex = downloader

\* C6: with no change_settings call, at most N = app.settings["threads"]
\* items occupy workers at any instant, however many requests are submitted.
C6_AtMostNRunning ==
    Len(execs) = 1 => Cardinality(RunningAll) <= settings["threads"]

C6_Witness ==
    /\ Len(execs) = 1
    /\ Cardinality(RunningAll) = settings["threads"]
    /\ Queued(1) # {}
    /\ nreq > settings["threads"]

\* C7: when the executed item produced no file path, the handler (either
\* one) answers with the ValueError if return_file is true and with the song
\* and an absent path if return_file is false.
C7_NoPathResponse ==
    [][ \A r \in Requests, rf \in BOOLEAN :
          (/\ items[r].out = "none"
           /\ \/ download_search_resume(r, rf)
              \/ download_objects_resume(r, rf))
          => items'[r].resp = IF rf THEN "ValueError" ELSE "SongNoPath"
      ]_vars

C7_Witness ==
    \E r, q \in Requests :
      items[r].resp = "ValueError" /\ items[q].resp = "SongNoPath"

\* C8: a change_settings call that fails because the Downloader cannot be
\* constructed leaves app.downloader, the Downloaders and their items, and
\* what get_settings returns as they were.
C8_FailedChangeKeepsState ==
    [][ (last'.kind = "error" /\ last.kind # "error") =>
          /\ GetSettingsValue(settings') = GetSettingsValue(settings)
          /\ UNCHANGED <<settings, execs, downloader, items, nreq, limit>>
      ]_vars

C8_Witness ==
    /\ last.kind = "error"
    /\ \E r \in Requests : items[r].st = "running" /\ items[r].ex = downloader
    /\ \E r \in Requests : items[r].resp \in Answers

\* C9: under fair scheduling of the event loop and the workers, every
\* download request that reached submission is eventually answered, with a
\* result or a failure, whatever change_settings and change_output calls
\* interleave with it.
C9_EverySubmissionAnswered ==
    \A r \in Requests :
      (items[r].st = "queued") ~> (items[r].st = "responded")

C9_Witness ==
    \E r \in Requests :
      /\ items[r].st = "queued"
      /\ items[r].ex # downloader
      /\ execs[downloader].output # settings["output"]

\* C10: when the download operation raises for an item, only the request
\* awaiting that item is answered with the failure; the other items, the
\* installed Downloader and the settings are unchanged.
C10_FailureStaysWithItem ==
    [][ /\ \A r \in Requests :
             (items[r].st = "running" /\ items'[r].out = "raise") =>
               /\ \A q \in Requests \ {r} : items'[q] = items[q]
               /\ downloader' = downloader
               /\ execs'[downloader] = execs[downloader]
               /\ settings' = settings
        /\ \A q \in Requests :
             (items'[q].resp = "DownloadFailed" /\ items[q].resp # "DownloadFailed")
               => items[q].out = "raise"
      ]_vars

C10_Witness ==
    \E r, q \in Requests :
      /\ r < q
      /\ items[r].resp = "DownloadFailed"
      /\ items[q].resp = "SongAndPath"

C12_GetReadOnlyIdempotent ==
    [][ /\ (last.kind # "settings" /\ last'.kind = "settings") =>
              UNCHANGED <<settings, execs, downloader, items, nreq, limit>>
        /\ (last.kind = "settings" /\ last'.kind = "settings") =>
              last'.value = last.value
        /\ last'.kind = "settings" =>
              last'.value = Some(GetSettingsValue(settings))
        /\ Len(execs') = Len(execs) =>
              GetSettingsValue(settings') = GetSettingsValue(settings)
      ]_vars

\* a snapshot has been returned after the output directory of the live
\* Downloader was changed, and downloads ran and were answered since
C12_Witness ==
    /\ last.kind = "settings"
    /\ last.value = Some([output |-> ".", threads |-> settings["threads"]])
    /\ execs[downloader].output # "."
    /\ \E r \in Requests : items[r].st = "running"
    /\ \E r \in Requests : items[r].resp \in Answers

\* C13: when change_settings calls race, app.downloader always refers to a
\* Downloader built from one complete merged snapshot: the initial one or
\* the one constructed by the call that assigned last; once all calls have
\* returned it is the object of exactly one call, the last writer; and every
\* request that read app.downloader in between got such a complete object.
C13_LastWriterWholeSnapshot ==
    LET Complete(e, c) ==
          /\ calls[c].dl = e
          /\ execs[e] = NewDownloader(Merge(settings, calls[c].partial[1]))
    IN
    /\ IF Committed = {}
       THEN downloader = 1 /\ execs[1] = NewDownloader(settings)
       ELSE \E c \in Committed :
              /\ calls[c].seq = Cardinality(Committed)
              /\ Complete(downloader, c)
              /\ \A d \in Committed \ {c} : calls[d].dl # downloader
    /\ \A r \in Requests :
         items[r].st = "queued" =>
           \/ items[r].ex = 1 /\ execs[1] = NewDownloader(settings)
           \/ \E c \in Committed : Complete(items[r].ex, c)

\* both calls have returned, the one that constructed its Downloader first
\* assigned last, their snapshots differ in both fields, and a request read
\* app.downloader between the two assignments
C13_Witness ==
    /\ Committed = Calls
    /\ \E c, d \in Calls :
         /\ calls[c].dl < calls[d].dl /\ calls[c].seq > calls[d].seq
         /\ downloader = calls[c].dl
         /\ execs[calls[c].dl].output # execs[calls[d].dl].output
         /\ execs[calls[c].dl].threads # execs[calls[d].dl].threads
         /\ \E r \in Requests : items[r].ex = calls[d].dl

\* C14: a download handler gives the event loop back at its await: while
\* items are queued or running, every other request can still be taken and
\* carried out at once: a new submission (as long as requests are left), a
\* get_settings, a change_output, and a change_settings (as long as
\* replacements are left).
C14_LoopStaysResponsive ==
    (\E r \in Requests : items[r].st \in {"queued", "running"}) =>
      /\ ENABLED get_settings
      /\ \A o \in Outputs : ENABLED change_output(o)
      /\ nreq < MaxReq =>
           /\ ENABLED download_objects
           /\ \A found \in BOOLEAN : ENABLED download_search(found)
      /\ Len(execs) < 1 + MaxChanges =>
           \A p \in SettingsModel, built \in BOOLEAN :
             ENABLED change_settings(p, built)

\* while the first request's item is running, a second request was accepted
\* and is queued, a third was accepted and answered, and a settings call
\* has replaced the Downloader
C14_Witness ==
    /\ items[1].st = "running"
    /\ items[2].st = "queued"
    /\ items[3].resp = "SearchFailed"
    /\ downloader # items[1].ex
    /\ last.kind = "settings"

\* C15: every change_settings call that succeeds, also one whose partial
\* names no field or changes no value, installs a newly constructed
\* Downloader built from the merged snapshot; the step leaves every item
\* where it is, and a replaced Downloader that still has items is left as
\* it is, with its workers: no Downloader with items is ever without workers.
C15_AlwaysFreshOldKeptAlive ==
    [][ /\ \A p \in SettingsModel :
             change_settings(p, TRUE) =>
               /\ Len(execs') = Len(execs) + 1
               /\ downloader' = Len(execs')
               /\ downloader' # downloader
               /\ execs'[downloader'] = NewDownloader(Merge(settings, p))
               /\ items' = items
               /\ \A e \in 1..Len(execs) :
                    InFlight(e) # {} => execs'[e] = execs[e]
        /\ \A r \in Requests :
             items'[r].st \in {"queued", "running"} =>
               execs'[items'[r].ex].threads >= 1
      ]_vars

\* a Downloader was replaced by one of identical configuration while it has
\* a running and a queued item, and one of its items has since finished
C15_Witness ==
    \E e \in 1..Len(execs) :
      /\ e # downloader
      /\ execs[e] = execs[downloader]
      /\ Running(e) # {} /\ Queued(e) # {}
      /\ \E r \in Requests : r < QueueHead(e) /\ items[r].st = "finished"

\* C16: change_output(path) sets the output field of the Downloader that
\* app.downloader refers to and nothing else: app.downloader is the same
\* object, its number of workers, every other Downloader, the queued and
\* running items and app.settings are as before, and the call answers True.
C16_OnlyOutputChanges ==
    [][ \A o \in Outputs :
          change_output(o) =>
            /\ downloader' = downloader
            /\ Len(execs') = Len(execs)
            /\ execs'[downloader].output = o
            /\ execs'[downloader].threads = execs[downloader].threads
            /\ \A e \in 1..Len(execs) : e # downloader => execs'[e] = execs[e]
            /\ items' = items
            /\ \A e \in 1..Len(execs) :
                 /\ Queued(e)' = Queued(e)
                 /\ Running(e)' = Running(e)
            /\ settings' = settings
            /\ last' = Returned("ok", None)
      ]_vars

\* the output of the installed Downloader was changed while it has a
\* running and a queued item; it is still the first Downloader
C16_Witness ==
    /\ Len(execs) = 1
    /\ execs[1].output = "out"
    /\ execs[1].threads = settings["threads"]
    /\ Running(1) # {} /\ Queued(1) # {}
    /\ last.kind = "ok"

====
